---------------------------- MODULE Spec2Model ----------------------------
(***************************************************************************)
(* Model of the Economist feed combiner, src/lau.py: content extraction,   *)
(* per-entry resolution with retries, and aggregation; and of the          *)
(* aggregation of src/combine_rss.py.                                      *)
(*                                                                         *)
(* Text is modelled as a sequence of passages.  A passage is a fixed run   *)
(* of characters of a known length (PassageLen); distinct passages share   *)
(* no characters, so Python's character-level "x in y" on the strings is   *)
(* the contiguous-subsequence test on the passage sequences.  A string     *)
(* built with " ".join is the sequence itself (one blank between           *)
(* passages); a string built with "\n\n".join is the sequence of its       *)
(* paragraphs.                                                             *)
(***************************************************************************)
EXTENDS Integers, Sequences, FiniteSets, TLC

VARIABLES
    html_content,   \* extract_article_text_from_html: the argument (parsed tree)
    extracted,      \* extract_article_text_from_html: [done, raised, paragraphs]
    pc,             \* fetch_items: position in the function
    per_feed_limit, \* fetch_items: parameter
    nFeeds,         \* fetch_items: len(feed_urls)
    driver,         \* fetch_items: the local variable driver ("None" or "set")
    session,        \* the browser process ("none", "open", "closed")
    feedIdx,        \* fetch_items: index of feed_url in feed_urls
    nEntries,       \* fetch_items: len(feed.entries) of the current feed
    entryIdx,       \* fetch_items: index of entry in feed.entries
    entry,          \* fetch_items: the current entry
    count,          \* fetch_items: items appended for the current feed
    retry_count,    \* fetch_items: attempts used for the current entry
    article_text,   \* fetch_items: text extracted for the current entry
    items,          \* fetch_items: the collection
    exc,            \* fetch_items: exception in flight ("none" when none)
    caughtSeq,      \* history: 1 when the retry loop of the entry collected
                    \* first (collection position 1) caught an exception
    result,         \* fetch_items: [status, items], status "running", "returned", "raised"
    inflight,       \* history: the entry being resolved when an interrupt arrived
    dated,          \* lines 390-391 on one entry: [done, entry, now, pub_dt, pubDate]
    captcha,        \* check_for_captcha on one page: [done, page, readFails, result]
    attempted,      \* one pass of the retry loop: [done, rc, in, out]
    rss             \* combine_rss.py, fetch_items: its locals, as one record

vars == <<html_content, extracted, pc, per_feed_limit, nFeeds, driver, session, feedIdx,
          nEntries, entryIdx, entry, count, retry_count, article_text, items,
          exc, caughtSeq, result, inflight, dated, captcha, attempted, rss>>

\* the variables of the operations modelled on their own
auxVars == <<dated, captcha, attempted, rss>>

extractVars == <<html_content, extracted>>

fetchVars == <<pc, per_feed_limit, nFeeds, driver, session, feedIdx, nEntries, entryIdx,
               entry, count, retry_count, article_text, items, exc, caughtSeq,
               result, inflight>>

-----------------------------------------------------------------------------
(* Bounds of the model *)

\* nodes (div, section, figcaption elements) in an input document
MaxNodes == 3

\* feeds passed to fetch_items
MaxFeeds == 2

\* largest per_feed_limit passed to fetch_items
MaxLimit == 2

\* entries in one feed document
MaxEntries == 3

\* distinct publication instants
MaxDate == 2

\* items in the collection: a feed document is drawn with no more entries
\* than the collection has room for
MaxCollected == 3

\* MAX_ITEMS (src/lau.py line 19 sets 500), scaled so that truncation occurs
MAX_ITEMS == 2

\* largest clock reading of a date string and of the ingestion clock
MaxClock == 4

\* phrases in the source of a page given to check_for_captcha
MaxPhrases == 2

-----------------------------------------------------------------------------
(* Text *)

\* the passages texts are built from, with their lengths in characters
PassageLen(p) ==
    CASE p = "pA" -> 30
      [] p = "pB" -> 30
      [] p = "pC" -> 30
      [] p = "subscribe" -> 9
      [] p = "pLong" -> 600
      [] OTHER -> 0

RECURSIVE SumLen(_)
SumLen(s) == IF s = <<>> THEN 0 ELSE PassageLen(Head(s)) + SumLen(Tail(s))

\* len(text) of a text whose passages are separated by single blanks
CharLen(s) == IF s = <<>> THEN 0 ELSE SumLen(s) + (Len(s) - 1)

\* Python's "a in b" on strings (the empty string is in every string)
IsSubstring(a, b) ==
    \E i \in 0..(Len(b) - Len(a)) :
        \A j \in 1..Len(a) : b[i + j] = a[j]

\* [p for p in paragraphs if p != existing]
RECURSIVE RemoveAll(_, _)
RemoveAll(seq, x) ==
    IF seq = <<>> THEN <<>>
    ELSE IF Head(seq) = x THEN RemoveAll(Tail(seq), x)
    ELSE <<Head(seq)>> \o RemoveAll(Tail(seq), x)

\* len("\n\n".join(paragraphs))
RECURSIVE JoinedLen(_)
JoinedLen(paragraphs) ==
    IF paragraphs = <<>> THEN 0
    ELSE IF Len(paragraphs) = 1 THEN CharLen(Head(paragraphs))
    ELSE CharLen(Head(paragraphs)) + 2 + JoinedLen(Tail(paragraphs))

-----------------------------------------------------------------------------
(* The parsed document: BeautifulSoup(html_content, "html.parser")          *)
(*                                                                         *)
(* A document is the sequence of its div, section and figcaption elements  *)
(* in document order.  Each node names its parent (0 is the soup itself),  *)
(* its style attribute and the text it holds directly (string children and *)
(* span/small/strong/em/a children), which precedes its child elements.    *)

\* a style attribute is a sequence of declarations; plain = FALSE marks one
\* written with capitals or blanks ("Line-Height: 28PX")
Decl(prop, val, plain) == [prop |-> prop, val |-> val, plain |-> plain]

StylePool ==
    { <<>>,
      << Decl("line-height", "28px", FALSE) >>,
      << Decl("display", "none", FALSE), Decl("line-height", "24px", TRUE) >>,
      << Decl("font-size", "17px", TRUE), Decl("line-height", "30px", TRUE) >>,
      << Decl("font-size", "20px", TRUE) >> }

TextPool ==
    { <<>>, <<"pA">>, <<"pB">>, <<"pA", "pB">>, <<"pC", "subscribe">> }

\* is a an ancestor of d (a = 0 is the soup, an ancestor of every node)
RECURSIVE IsAncestor(_, _, _)
IsAncestor(doc, a, d) ==
    IF d = 0 THEN FALSE
    ELSE doc[d].parent = a \/ IsAncestor(doc, a, doc[d].parent)

\* document order is pre-order: the parent of the node that follows doc is
\* the last node of doc or one of that node's ancestors
OpenNodes(doc) ==
    IF doc = <<>> THEN {0}
    ELSE { a \in 0..Len(doc) : a = Len(doc) \/ IsAncestor(doc, a, Len(doc)) }

\* the nodes that may follow doc
NodesAfter(doc) ==
    [tag : {"div"}, parent : OpenNodes(doc), style : StylePool, text : TextPool]
    \cup [tag : {"section", "figcaption"}, parent : OpenNodes(doc),
          style : {<<>>}, text : {<<>>}]

\* re.sub(r'\s+', '', style_str.lower()): the declarations in canonical form
normalize_style(style_str) ==
    IF style_str = <<>> THEN <<>>
    ELSE [k \in 1..Len(style_str) |->
            [prop |-> style_str[k].prop, val |-> style_str[k].val]]

\* 'prop:val' in style_norm
HasDecl(style_norm, prop, val) ==
    \E k \in 1..Len(style_norm) :
        style_norm[k].prop = prop /\ style_norm[k].val = val

\* 'prop' in style_norm
HasProp(style_norm, prop) ==
    \E k \in 1..Len(style_norm) : style_norm[k].prop = prop

\* div.get("style", "") followed by normalize_style
StyleNorm(doc, i) == normalize_style(doc[i].style)

\* div.find('figcaption')
HasFigcaption(doc, i) ==
    \E j \in 1..Len(doc) : doc[j].tag = "figcaption" /\ IsAncestor(doc, i, j)

is_content_div(doc, i, style_norm) ==
    IF HasDecl(style_norm, "display", "none") THEN FALSE
    ELSE IF HasFigcaption(doc, i) THEN FALSE
    ELSE IF \/ HasDecl(style_norm, "line-height", "28px")
            \/ HasDecl(style_norm, "line-height", "24px") THEN TRUE
    ELSE IF /\ \/ HasDecl(style_norm, "font-size", "20px")
               \/ HasDecl(style_norm, "font-size", "17px")
            /\ HasProp(style_norm, "line-height") THEN TRUE
    ELSE FALSE

\* soup.find("section"): the first section element, 0 (the soup) when none
SearchRoot(doc) ==
    IF \E i \in 1..Len(doc) : doc[i].tag = "section"
    THEN CHOOSE i \in 1..Len(doc) :
            /\ doc[i].tag = "section"
            /\ \A j \in 1..(i - 1) : doc[j].tag # "section"
    ELSE 0

\* search_root.find_all("div", recursive=True), in document order
RECURSIVE DivsFrom(_, _, _)
DivsFrom(doc, root, i) ==
    IF i > Len(doc) THEN <<>>
    ELSE IF doc[i].tag = "div" /\ IsAncestor(doc, root, i)
         THEN <<i>> \o DivsFrom(doc, root, i + 1)
         ELSE DivsFrom(doc, root, i + 1)

AllDivs(doc) == DivsFrom(doc, SearchRoot(doc), 1)

\* lines 198-208: the text held directly by the div
DirectText(doc, i) == doc[i].text

\* div.get_text(separator=" ", strip=True): every string below the div
RECURSIVE TextFrom(_, _, _)
TextFrom(doc, i, j) ==
    IF j > Len(doc) THEN <<>>
    ELSE IF j = i \/ IsAncestor(doc, i, j)
         THEN doc[j].text \o TextFrom(doc, i, j + 1)
         ELSE TextFrom(doc, i, j + 1)

GetText(doc, i) == TextFrom(doc, i, i)

-----------------------------------------------------------------------------
(* extract_article_text_from_html                                          *)
(*                                                                         *)
(* An outcome is [raised, paragraphs]: raised when an exception leaves the *)
(* function, else paragraphs is the list whose "\n\n".join is returned.    *)
(* Iteration over the set seen_texts visits it in an order the program     *)
(* does not choose, so the operators return the set of possible outcomes.  *)

\* the minimum lengths of lines 211 and 242
MinStyledLen == 20
MinPermissiveLen == 50

\* the denylist of line 243, as the passages that spell one of its phrases
DenyPassages == {"subscribe", "sign in", "menu", "share this"}

\* any(keyword in text.lower() for keyword in [...])
HasDenyKeyword(text) == \E k \in 1..Len(text) : text[k] \in DenyPassages

\* lines 212-220: "for existing in seen_texts", todo the members not yet
\* visited; changed is set once the loop body has discarded a member, after
\* which the set iterator raises RuntimeError on its next step
RECURSIVE ScanSeen(_, _, _, _, _)
ScanSeen(text, todo, paragraphs, seen_texts, changed) ==
    IF changed
    THEN { [raised |-> TRUE, is_duplicate |-> FALSE,
            paragraphs |-> paragraphs, seen_texts |-> seen_texts] }
    ELSE IF todo = {}
    THEN { [raised |-> FALSE, is_duplicate |-> FALSE,
            paragraphs |-> paragraphs, seen_texts |-> seen_texts] }
    ELSE UNION {
        IF IsSubstring(text, existing) \/ IsSubstring(existing, text)
        THEN IF CharLen(text) > CharLen(existing)
             THEN ScanSeen(text, todo \ {existing},
                           RemoveAll(paragraphs, existing),
                           seen_texts \ {existing}, TRUE)
             ELSE { [raised |-> FALSE, is_duplicate |-> TRUE,
                     paragraphs |-> paragraphs, seen_texts |-> seen_texts] }
        ELSE ScanSeen(text, todo \ {existing}, paragraphs, seen_texts, FALSE)
        : existing \in todo }

\* lines 192-224: the body of the first loop for one div, from one state
StyledStep(doc, i, st) ==
    IF st.raised THEN { st }
    ELSE IF ~is_content_div(doc, i, StyleNorm(doc, i)) THEN { st }
    ELSE LET text == DirectText(doc, i) IN
         IF CharLen(text) > MinStyledLen /\ text \notin st.seen_texts
         THEN { IF r.raised \/ r.is_duplicate
                THEN [raised |-> r.raised, paragraphs |-> r.paragraphs,
                      seen_texts |-> r.seen_texts]
                ELSE [raised |-> FALSE,
                      paragraphs |-> Append(r.paragraphs, text),
                      seen_texts |-> r.seen_texts \cup {text}]
                : r \in ScanSeen(text, st.seen_texts, st.paragraphs,
                                 st.seen_texts, FALSE) }
         ELSE { st }

\* lines 191-224: the first loop over all_divs[k..]
RECURSIVE StyledLayer(_, _, _, _)
StyledLayer(doc, divs, k, states) ==
    IF k > Len(divs) THEN states
    ELSE StyledLayer(doc, divs, k + 1,
                     UNION { StyledStep(doc, divs[k], st) : st \in states })

\* PermissiveStep without the test of line 242 that the text has not been
\* seen
PermissiveStepRepeats(doc, i, st) ==
    IF HasDecl(StyleNorm(doc, i), "display", "none") THEN st
    ELSE IF HasFigcaption(doc, i) THEN st
    ELSE LET text == GetText(doc, i) IN
         IF /\ CharLen(text) > MinPermissiveLen
            /\ ~HasDenyKeyword(text)
         THEN [raised |-> FALSE, paragraphs |-> Append(st.paragraphs, text),
               seen_texts |-> st.seen_texts \cup {text}]
         ELSE st

\* lines 232-245: the body of the second loop for one div
PermissiveStep(doc, i, st) ==
    IF HasDecl(StyleNorm(doc, i), "display", "none") THEN st
    ELSE IF HasFigcaption(doc, i) THEN st
    ELSE LET text == GetText(doc, i) IN
         IF /\ CharLen(text) > MinPermissiveLen
            /\ text \notin st.seen_texts
            /\ ~HasDenyKeyword(text)
         THEN [raised |-> FALSE, paragraphs |-> Append(st.paragraphs, text),
               seen_texts |-> st.seen_texts \cup {text}]
         ELSE st

\* lines 231-245: the second loop over all_divs[k..]
RECURSIVE PermissiveLayer(_, _, _, _)
PermissiveLayer(doc, divs, k, st) ==
    IF k > Len(divs) THEN st
    ELSE PermissiveLayer(doc, divs, k + 1, PermissiveStep(doc, divs[k], st))

EmptyState == [raised |-> FALSE, paragraphs |-> <<>>, seen_texts |-> {}]

\* the fewest fragments of the first loop that keep its result (line 227)
MinStyledFragments == 3

\* lines 181-224: the possible states after the first loop
StyledOutcomes(doc) == StyledLayer(doc, AllDivs(doc), 1, { EmptyState })

\* lines 227-245 from one state of the first loop
AfterPermissive(doc, st) ==
    IF st.raised THEN st
    ELSE IF Len(st.paragraphs) < MinStyledFragments
         THEN PermissiveLayer(doc, AllDivs(doc), 1, EmptyState)
         ELSE st

Outcome(st) == [raised |-> st.raised,
                paragraphs |-> IF st.raised THEN <<>> ELSE st.paragraphs]

\* the whole function: the set of its possible outcomes on a document
extract_article_text_from_html(doc) ==
    IF doc = <<>> THEN { [raised |-> FALSE, paragraphs |-> <<>>] }
    ELSE { Outcome(AfterPermissive(doc, st)) : st \in StyledOutcomes(doc) }

-----------------------------------------------------------------------------
(* The rendered page, as the driver shows it                               *)

ARCHIVE_PREFIX == "https://archive.is/o/nuunc/"

\* the number of XPATH_PATTERNS
NumXPaths == 4

Div(parent, style, text) ==
    [tag |-> "div", parent |-> parent, style |-> style, text |-> text]

ContentStyle == << Decl("line-height", "28px", TRUE) >>

\* an article of three styled paragraphs, 664 characters when joined
DocArticle ==
    << [tag |-> "section", parent |-> 0, style |-> <<>>, text |-> <<>>],
       Div(1, ContentStyle, <<"pLong">>),
       Div(1, ContentStyle, <<"pA">>),
       Div(1, ContentStyle, <<"pB">>) >>

\* one styled paragraph of 61 characters
DocShort == << Div(0, ContentStyle, <<"pA", "pB">>) >>

\* no text at all
DocBlank == << Div(0, <<>>, <<>>) >>

\* a styled paragraph followed by a styled paragraph that contains it
DocGrowing ==
    << Div(0, ContentStyle, <<"pA">>), Div(0, ContentStyle, <<"pA", "pB">>) >>

\* a page source whose first section is a navigation bar without divs,
\* followed by the article of DocShort, which lies outside that section
DocNavFirst ==
    << [tag |-> "section", parent |-> 0, style |-> <<>>, text |-> <<>>],
       Div(0, ContentStyle, <<"pA", "pB">>) >>

PageDocs == { DocArticle, DocShort, DocBlank, DocGrowing }

\* what find_element + get_attribute("outerHTML") give for one pattern
NodeMissing == [found |-> FALSE, html |-> <<>>, long |-> FALSE]
NodeFound(doc) == [found |-> TRUE, html |-> doc, long |-> TRUE]
NodeTiny(doc) == [found |-> TRUE, html |-> doc, long |-> FALSE]

\* a page: its source as a document, the phrases its source text holds, and
\* the node each XPath pattern finds
Page(dom, phrases, xp) == [dom |-> dom, phrases |-> phrases, xpath |-> xp]

XPathResults(dom) ==
    { [k \in 1..NumXPaths |-> NodeMissing],
      [k \in 1..NumXPaths |-> IF k = 1 THEN NodeMissing ELSE NodeFound(dom)],
      [k \in 1..NumXPaths |-> IF k = 1 THEN NodeTiny(dom) ELSE NodeMissing] }

Pages ==
    { Page(dom, phrases, xp) :
        dom \in PageDocs, phrases \in { {}, {"captcha"} },
        xp \in { [k \in 1..NumXPaths |-> NodeMissing] } }
    \cup UNION { { Page(dom, {}, xp) : xp \in XPathResults(dom) } :
                    dom \in {DocArticle, DocShort} }
    \cup { Page(DocNavFirst, {},
                [k \in 1..NumXPaths |->
                    IF k = 1 THEN NodeMissing ELSE NodeFound(DocShort)]) }

\* the phrases a page source may hold: the indicator phrases in several
\* letter cases, and a phrase that is no indicator
PhraseTexts ==
    { "recaptcha", "captcha", "CAPTCHA", "verify you are human",
      "Verify You Are Human", "automated queries", "try again later",
      "Try again later", "TRY AGAIN LATER", "all rights reserved" }

\* str.lower() on a phrase
Lower(p) ==
    CASE p = "CAPTCHA" -> "captcha"
      [] p = "Verify You Are Human" -> "verify you are human"
      [] p = "Try again later" -> "try again later"
      [] p = "TRY AGAIN LATER" -> "try again later"
      [] OTHER -> p

\* page_text = driver.page_source.lower(): the phrases in lower case
LowerPhrases(phrases) == { Lower(p) : p \in phrases }

captcha_indicators ==
    { "recaptcha", "captcha", "verify you are human", "automated queries",
      "Try again later" }

\* readFails: reading driver.page_source raises inside the function
check_for_captcha(page, readFails) ==
    IF readFails THEN FALSE
    ELSE \E indicator \in captcha_indicators :
            indicator \in LowerPhrases(page.phrases)

\* the first pattern whose node exists and whose outerHTML is longer than
\* MinOuterHtml characters; "" (the empty document) when none
RECURSIVE fetch_node_from(_, _)
fetch_node_from(page, k) ==
    IF k > NumXPaths THEN <<>>
    ELSE IF /\ page.xpath[k].found
            /\ page.xpath[k].html # <<>>
            /\ page.xpath[k].long
         THEN page.xpath[k].html
         ELSE fetch_node_from(page, k + 1)

fetch_node_outer_html_with_xpaths(page) == fetch_node_from(page, 1)

-----------------------------------------------------------------------------
(* fetch_items of lau.py: one pass of the retry loop                       *)

max_retries == 2

\* the length below which an extracted text counts as short (lines 346, 354)
MinArticleLen == 500

\* what the renderer and the file system do during one pass
AttemptInputs ==
    [ get : {"ok", "TimeoutException", "WebDriverException"},
      page1 : Pages,          \* the page when the challenge is first checked
      page2 : Pages,          \* the page after the wait of line 327
      readFails : BOOLEAN,    \* page_source raises inside check_for_captcha
      srcFails : BOOLEAN,     \* page_source raises at line 348
      dbgFails : BOOLEAN ]    \* open/write of the debug file raises

\* a pass that ends without an exception: retry_count and article_text
\* after it, and whether it left the loop by break
Passed(rc, at, left) ==
    [retry_count |-> rc, article_text |-> at, left |-> left,
     caught |-> FALSE, escaped |-> FALSE]

\* Caught with the except clauses missing the exception, which then leaves
\* the loop
CaughtEscapes(rc, at) ==
    [retry_count |-> rc, article_text |-> at, left |-> FALSE,
     caught |-> FALSE, escaped |-> TRUE]

\* the except clauses of lines 371-380: TimeoutException and every other
\* subclass of Exception are caught, and both clauses count the attempt
Caught(rc, at) ==
    [retry_count |-> rc + 1, article_text |-> at, left |-> FALSE,
     caught |-> TRUE, escaped |-> FALSE]

\* AfterExtraction without the retry_count += 1 of line 366
AfterExtractionUncounted(rc, at, in) ==
    IF JoinedLen(at) < MinArticleLen
    THEN IF rc = 0 /\ in.dbgFails
         THEN Caught(rc, at)
         ELSE Passed(rc, at, FALSE)
    ELSE Passed(rc, at, TRUE)

\* lines 351-369, with the text article_text held after the fallback
AfterExtraction(rc, at, in) ==
    IF JoinedLen(at) < MinArticleLen
    THEN IF rc = 0 /\ in.dbgFails
         THEN Caught(rc, at)
         ELSE Passed(rc + 1, at, FALSE)
    ELSE Passed(rc, at, TRUE)

\* lines 345-349 and on, with the text held after line 343
AfterFragment(rc, at, page, in) ==
    IF at = <<>> \/ JoinedLen(at) < MinArticleLen
    THEN IF in.srcFails
         THEN { Caught(rc, at) }
         ELSE { IF r.raised THEN Caught(rc, at)
                ELSE AfterExtraction(rc, r.paragraphs, in)
                : r \in extract_article_text_from_html(page.dom) }
    ELSE { AfterExtraction(rc, at, in) }

\* lines 334-349 and on, on the page the driver shows
AfterChallenge(rc, at, page, in) ==
    LET outer_html == fetch_node_outer_html_with_xpaths(page) IN
    IF outer_html # <<>>
    THEN UNION { IF r.raised THEN { Caught(rc, at) }
                 ELSE AfterFragment(rc, r.paragraphs, page, in)
                 : r \in extract_article_text_from_html(outer_html) }
    ELSE AfterFragment(rc, at, page, in)

\* attempt without the second challenge check of line 328
attemptUnchecked(rc, at, in) ==
    IF in.get # "ok" THEN { Caught(rc, at) }
    ELSE IF check_for_captcha(in.page1, in.readFails)
    THEN AfterChallenge(rc, at, in.page2, in)
    ELSE AfterChallenge(rc, at, in.page1, in)

\* lines 307-380: one pass of the loop body, entered with retry_count = rc and
\* article_text = at; its possible outcomes
attempt(rc, at, in) ==
    IF in.get # "ok" THEN { Caught(rc, at) }
    ELSE IF check_for_captcha(in.page1, in.readFails)
    THEN IF check_for_captcha(in.page2, in.readFails)
         THEN { Passed(rc + 1, at, FALSE) }
         ELSE AfterChallenge(rc, at, in.page2, in)
    ELSE AfterChallenge(rc, at, in.page1, in)

\* every outcome of one pass entered with retry_count = rc: the loop is
\* entered only with an empty article_text (line 306)
AttemptOutcomes == 
    [rc \in 0..(max_retries - 1) |->
        UNION { attempt(rc, <<>>, in) : in \in AttemptInputs }]

-----------------------------------------------------------------------------
(* fetch_items of lau.py: the aggregation                                  *)
(*                                                                         *)
(* A local variable that the program will not read again before assigning  *)
(* it (entry, retry_count, article_text after the append; the entry loop's *)
(* variables after the loop) is set back to its initial value, so that     *)
(* states differing only in dead values are one state.                     *)

\* A date string of a feed entry is [kind, wall, off]: kind "missing" when
\* the entry has no such field (or an empty one), "unparsable" when the text
\* is no RFC 2822 date, "naive" when it is a date without a zone ("-0000"),
\* "aware" when it is a date with a zone; wall is the clock reading it
\* spells and off the UTC offset it spells, in the same unit.
NoDate == [kind |-> "missing", wall |-> 0, off |-> 0]

BadDate == [kind |-> "unparsable", wall |-> 0, off |-> 0]

DateString(wall, off) == [kind |-> "aware", wall |-> wall, off |-> off]

NaiveDateString(wall) == [kind |-> "naive", wall |-> wall, off |-> 0]

\* the UTC offsets of the date strings
Offsets == {-1, 0, 1}

\* the date strings of the entries fetch_items is run on: none, or a date
\* in UTC
FeedDates == { NoDate } \cup { DateString(d, 0) : d \in 1..MaxDate }

\* every date string of the bounds
DateStrings ==
    { NoDate, BadDate }
    \cup { NaiveDateString(w) : w \in 0..MaxClock }
    \cup { DateString(w, o) : w \in 0..MaxClock, o \in Offsets }

\* a feed entry: link "None" when the entry has no link, "" when its link is
\* the empty string; published and updated are its date strings
Entries == [link : {"None", "", "u"}, published : FeedDates,
            updated : { NoDate }]

NoEntry == [link |-> "", published |-> NoDate, updated |-> NoDate]

NoInflight == [active |-> FALSE, feed |-> 0, idx |-> 0, seq |-> 0]

\* A datetime is [wall, off, tzinfo]: the clock reading of its fields
\* (year ... second), its UTC offset, and whether it carries a zone.
\* datetime.now(timezone.utc) at the instant now
UtcNow(now) == [wall |-> now, off |-> 0, tzinfo |-> TRUE]

\* email.utils.parsedate_to_datetime on a date string that parses: the
\* fields as spelled, with the zone spelled
parsedate_to_datetime(str) ==
    [wall |-> str.wall, off |-> str.off, tzinfo |-> str.kind = "aware"]

\* the instant an aware datetime denotes; aware datetimes compare by it
Instant(dt) == dt.wall - dt.off

\* lines 262-273, with now the instant of the call
parse_pubdate(e, now) ==
    LET pub_str == IF e.published.kind # "missing" THEN e.published
                   ELSE e.updated IN
    IF pub_str.kind = "missing" \/ pub_str.kind = "unparsable"
    THEN UtcNow(now)
    ELSE LET dt == parsedate_to_datetime(pub_str) IN
         IF ~dt.tzinfo
         THEN [wall |-> dt.wall, off |-> 0, tzinfo |-> TRUE]
         ELSE dt

\* line 391, pub_dt.strftime("%a, %d %b %Y %H:%M:%S +0000"): the date string
\* that spells the fields of pub_dt, followed by the zone +0000
strftime(pub_dt) == DateString(pub_dt.wall, 0)

\* InsertDesc placing x before the items of its own pub_dt
RECURSIVE InsertDescUnstable(_, _)
InsertDescUnstable(sorted, x) ==
    IF sorted = <<>> THEN <<x>>
    ELSE IF Instant(Head(sorted).pub_dt) > Instant(x.pub_dt)
         THEN <<Head(sorted)>> \o InsertDescUnstable(Tail(sorted), x)
         ELSE <<x>> \o sorted

\* insert item x into a list sorted by pub_dt descending, after every item
\* whose pub_dt is at least its own
RECURSIVE InsertDesc(_, _)
InsertDesc(sorted, x) ==
    IF sorted = <<>> THEN <<x>>
    ELSE IF Instant(Head(sorted).pub_dt) >= Instant(x.pub_dt)
         THEN <<Head(sorted)>> \o InsertDesc(Tail(sorted), x)
         ELSE <<x>> \o sorted

\* items.sort(key=lambda x: x["pub_dt"], reverse=True): a stable sort,
\* descending, that keeps items of equal key in their original order
RECURSIVE SortByPubDtDesc(_)
SortByPubDtDesc(list) ==
    IF list = <<>> THEN <<>>
    ELSE InsertDesc(SortByPubDtDesc(SubSeq(list, 1, Len(list) - 1)),
                    list[Len(list)])

\* list[:n]
Prefix(list, n) == SubSeq(list, 1, IF Len(list) < n THEN Len(list) ELSE n)

\* lines 393-401: the item of an entry; src records where the item comes
\* from (its feed, its position in the collection) and is not part of the
\* program's dictionary
MakeItem(e, text, pub_dt, feed, seq) ==
    [ link |-> <<ARCHIVE_PREFIX, e.link>>,
      original_link |-> e.link,
      description |-> text,
      pubDate |-> strftime(pub_dt),
      pub_dt |-> pub_dt,
      src |-> [feed |-> feed, seq |-> seq] ]

\* Exceptions with the KeyboardInterrupt among them: an interrupt handled
\* as line 407 handles an exception, by raising it again
ExceptionsWithInterrupt ==
    {"SetupError", "FeedError", "ResolutionError", "KeyboardInterrupt"}

\* the exceptions in flight that are subclasses of Exception, named by where
\* they were raised: in create_webdriver, in feedparser.parse, in the retry
\* loop; a KeyboardInterrupt is not one
Exceptions == {"SetupError", "FeedError", "ResolutionError"}

\* HasLink testing only that the entry has a link ("is not None")
HasLinkUnlessNone(e) == e.link # "None"

\* lines 295-297: "if not link" is false; None and "" are both falsy
HasLink(e) == e.link # "None" /\ e.link # ""

\* LimitReached with the comparison off by one
LimitReachedLate(n, limit) == n > limit

\* lines 292-293
LimitReached(n, limit) == n >= limit

\* SortedAndCapped with the cut taken before the sort
CappedThenSorted(list) == SortByPubDtDesc(Prefix(list, MAX_ITEMS))

\* lines 418-420: sort, then cut
SortedAndCapped(list) == Prefix(SortByPubDtDesc(list), MAX_ITEMS)

\* line 390-391 not yet run
NotDated(e, now) ==
    [done |-> FALSE, entry |-> e, now |-> now,
     pub_dt |-> UtcNow(0), pubDate |-> NoDate]

\* check_for_captcha not yet called on the page
NotChecked(page, readFails) ==
    [done |-> FALSE, page |-> page, readFails |-> readFails,
     result |-> FALSE]

\* the pass not yet made
NotAttempted(rc, in) ==
    [done |-> FALSE, rc |-> rc, in |-> in, out |-> Passed(rc, <<>>, FALSE)]

\* combine_rss.py, fetch_items called with n feeds: the record of its
\* locals, with pc its position, session the browser process, exc the
\* exception in flight, linked the number of entries with a link it has
\* taken up (history), result what the call gave
RssCalled(n) ==
    [pc |-> "setup", nFeeds |-> n, feedIdx |-> 0, nEntries |-> 0,
     entryIdx |-> 0, all_items |-> <<>>, session |-> "none",
     exc |-> "none", linked |-> 0,
     result |-> [status |-> "running", items |-> <<>>]]

\* an operation that a specification does not run has no inputs there
DateIdle == dated = [done |-> FALSE]

CaptchaIdle == captcha = [done |-> FALSE]

AttemptIdle == attempted = [done |-> FALSE]

RssIdle == rss = [pc |-> "idle"]

AuxIdle ==
    /\ DateIdle
    /\ CaptchaIdle
    /\ AttemptIdle
    /\ RssIdle

FetchIdle ==
    /\ pc = "idle"
    /\ per_feed_limit = 0
    /\ nFeeds = 0
    /\ driver = "None"
    /\ session = "none"
    /\ feedIdx = 0
    /\ nEntries = 0
    /\ entryIdx = 0
    /\ entry = NoEntry
    /\ count = 0
    /\ retry_count = 0
    /\ article_text = <<>>
    /\ items = <<>>
    /\ exc = "none"
    /\ caughtSeq = 0
    /\ result = [status |-> "running", items |-> <<>>]
    /\ inflight = NoInflight

ExtractIdle ==
    /\ html_content = <<>>
    /\ extracted = [done |-> FALSE, raised |-> FALSE, paragraphs |-> <<>>]

\* the call fetch_items(feed_urls, per_feed_limit), at line 277
Init ==
    /\ ExtractIdle
    /\ AuxIdle
    /\ pc = "create"
    /\ per_feed_limit \in 0..MaxLimit
    /\ nFeeds \in 0..MaxFeeds
    /\ driver = "None"
    /\ session = "none"
    /\ feedIdx = 0
    /\ nEntries = 0
    /\ entryIdx = 0
    /\ entry = NoEntry
    /\ count = 0
    /\ retry_count = 0
    /\ article_text = <<>>
    /\ items = <<>>
    /\ exc = "none"
    /\ caughtSeq = 0
    /\ result = [status |-> "running", items |-> <<>>]
    /\ inflight = NoInflight

\* line 281, create_webdriver: the session starts and is returned, or
\* uc.Chrome raises before a session exists, or execute_cdp_cmd raises after
\* the session has started (lines 92-94 re-raise, driver stays None)
CreateWebdriver ==
    /\ pc = "create"
    /\ \/ /\ session' = "open"
          /\ driver' = "set"
          /\ pc' = "feed"
          /\ exc' = exc
       \/ /\ session' = "none"
          /\ driver' = "None"
          /\ pc' = "finally"
          /\ exc' = "SetupError"
       \/ /\ session' = "open"
          /\ driver' = "None"
          /\ pc' = "finally"
          /\ exc' = "SetupError"
    /\ UNCHANGED <<per_feed_limit, nFeeds, feedIdx, nEntries, entryIdx, entry,
                   count, retry_count, article_text, items, result, inflight,
                   caughtSeq>>
    /\ UNCHANGED extractVars
    /\ UNCHANGED auxVars

\* line 283: the feed loop has no more feeds
FeedsDone ==
    /\ pc = "feed"
    /\ feedIdx = nFeeds
    /\ pc' = "finally"
    /\ UNCHANGED <<per_feed_limit, nFeeds, driver, session, feedIdx, nEntries,
                   entryIdx, entry, count, retry_count, article_text, items,
                   exc, result, inflight,
                   caughtSeq>>
    /\ UNCHANGED extractVars
    /\ UNCHANGED auxVars

\* lines 283-289: the next feed is parsed; feedparser.parse returns a
\* document with n entries (none for a malformed feed), or raises
ParseFeed ==
    /\ pc = "feed"
    /\ feedIdx < nFeeds
    /\ feedIdx' = feedIdx + 1
    /\ \/ \E n \in 0..MaxEntries :
             /\ n <= MaxCollected - Len(items)
             /\ nEntries' = n
             /\ entryIdx' = 0
             /\ count' = 0
             /\ pc' = "entry"
             /\ exc' = exc
       \/ /\ exc' = "FeedError"
          /\ pc' = "finally"
          /\ UNCHANGED <<nEntries, entryIdx, count>>
    /\ UNCHANGED <<per_feed_limit, nFeeds, driver, session, entry, retry_count,
                   article_text, items, result, inflight,
                   caughtSeq>>
    /\ UNCHANGED extractVars
    /\ UNCHANGED auxVars

\* line 291 exhausted, or lines 292-293: the entry loop of the feed ends
EntriesDone ==
    /\ pc = "entry"
    /\ entryIdx = nEntries \/ LimitReached(count, per_feed_limit)
    /\ pc' = "feed"
    /\ nEntries' = 0
    /\ entryIdx' = 0
    /\ count' = 0
    /\ UNCHANGED <<per_feed_limit, nFeeds, driver, session, feedIdx, entry,
                   retry_count, article_text, items, exc, result, inflight,
                   caughtSeq>>
    /\ UNCHANGED extractVars
    /\ UNCHANGED auxVars

\* lines 291-304: the next entry e of the feed; without a link it is passed
\* over, with one its resolution starts.  The date of an entry without a
\* link is never read, so one such entry stands for all of them.
NextEntry ==
    /\ pc = "entry"
    /\ entryIdx < nEntries
    /\ ~LimitReached(count, per_feed_limit)
    /\ \E e \in Entries :
         /\ ~HasLink(e) => e.published = NoDate
         /\ entryIdx' = entryIdx + 1
         /\ IF HasLink(e)
            THEN /\ pc' = "attempt"
                 /\ entry' = e
                 /\ retry_count' = 0
                 /\ article_text' = <<>>
            ELSE /\ pc' = "entry"
                 /\ entry' = NoEntry
                 /\ UNCHANGED <<retry_count, article_text>>
    /\ UNCHANGED <<per_feed_limit, nFeeds, driver, session, feedIdx, nEntries,
                   count, items, exc, result, inflight,
                   caughtSeq>>
    /\ UNCHANGED extractVars
    /\ UNCHANGED auxVars

\* lines 306-380: one pass of the retry loop
Attempt ==
    /\ pc = "attempt"
    /\ retry_count < max_retries
    /\ article_text = <<>>
    /\ \E o \in AttemptOutcomes[retry_count] :
         /\ retry_count' = o.retry_count
         /\ article_text' = o.article_text
         /\ caughtSeq' = IF o.caught /\ Len(items) = 0
                         THEN 1 ELSE caughtSeq
         /\ IF o.escaped
            THEN pc' = "finally" /\ exc' = "ResolutionError"
            ELSE /\ pc' = IF o.left THEN "append" ELSE "attempt"
                 /\ exc' = exc
    /\ UNCHANGED <<per_feed_limit, nFeeds, driver, session, feedIdx, nEntries,
                   entryIdx, entry, count, items, result, inflight>>
    /\ UNCHANGED extractVars
    /\ UNCHANGED auxVars

\* line 306: the loop condition is false
LoopExit ==
    /\ pc = "attempt"
    /\ ~(retry_count < max_retries /\ article_text = <<>>)
    /\ pc' = "append"
    /\ UNCHANGED <<per_feed_limit, nFeeds, driver, session, feedIdx, nEntries,
                   entryIdx, entry, count, retry_count, article_text, items,
                   exc, result, inflight,
                   caughtSeq>>
    /\ UNCHANGED extractVars
    /\ UNCHANGED auxVars

\* lines 382-403: the item is built and appended
AppendItem ==
    /\ pc = "append"
    /\ \E now \in 1..MaxDate :
         items' = Append(items,
                     MakeItem(entry, article_text, parse_pubdate(entry, now),
                              feedIdx, Len(items) + 1))
    /\ count' = count + 1
    /\ pc' = "entry"
    /\ entry' = NoEntry
    /\ retry_count' = 0
    /\ article_text' = <<>>
    /\ UNCHANGED <<per_feed_limit, nFeeds, driver, session, feedIdx, nEntries,
                   entryIdx, exc, result, inflight,
                   caughtSeq>>
    /\ UNCHANGED extractVars
    /\ UNCHANGED auxVars

\* a KeyboardInterrupt arrives inside the try block (lines 280-403); no
\* except clause of the retry loop catches it (lines 371, 376 catch
\* subclasses of Exception), so control goes to line 405
Interrupt ==
    /\ pc \in {"feed", "entry", "attempt", "append"}
    /\ exc' = "KeyboardInterrupt"
    /\ pc' = "finally"
    /\ inflight' = IF pc = "attempt"
                   THEN [active |-> TRUE, feed |-> feedIdx, idx |-> entryIdx,
                         seq |-> Len(items) + 1]
                   ELSE NoInflight
    /\ nEntries' = 0
    /\ entryIdx' = 0
    /\ count' = 0
    /\ entry' = NoEntry
    /\ retry_count' = 0
    /\ article_text' = <<>>
    /\ UNCHANGED <<per_feed_limit, nFeeds, driver, session, feedIdx, items,
                   result,
                   caughtSeq>>
    /\ UNCHANGED extractVars
    /\ UNCHANGED auxVars

\* lines 405-416: the except clauses and the finally block; an Exception is
\* re-raised after the browser is closed
Finally ==
    /\ pc = "finally"
    /\ session' = IF driver = "set" THEN "closed" ELSE session
    /\ IF exc \in Exceptions
       THEN /\ pc' = "done"
            /\ result' = [status |-> "raised", items |-> <<>>]
       ELSE /\ pc' = "sort"
            /\ result' = result
    /\ UNCHANGED <<per_feed_limit, nFeeds, driver, feedIdx, nEntries, entryIdx,
                   entry, count, retry_count, article_text, items, exc,
                   inflight,
                   caughtSeq>>
    /\ UNCHANGED extractVars
    /\ UNCHANGED auxVars

\* lines 418-420
SortAndReturn ==
    /\ pc = "sort"
    /\ result' = [status |-> "returned",
                  items |-> SortedAndCapped(items)]
    /\ pc' = "done"
    /\ UNCHANGED <<per_feed_limit, nFeeds, driver, session, feedIdx, nEntries,
                   entryIdx, entry, count, retry_count, article_text, items,
                   exc, inflight,
                   caughtSeq>>
    /\ UNCHANGED extractVars
    /\ UNCHANGED auxVars

Next ==
    \/ CreateWebdriver
    \/ FeedsDone
    \/ ParseFeed
    \/ EntriesDone
    \/ NextEntry
    \/ Attempt
    \/ LoopExit
    \/ AppendItem
    \/ Interrupt
    \/ Finally
    \/ SortAndReturn

Spec == Init /\ [][Next]_vars

-----------------------------------------------------------------------------
(* extract_article_text_from_html applied to the documents of the bounds   *)

InitExtract ==
    /\ FetchIdle
    /\ AuxIdle
    /\ html_content = <<>>
    /\ extracted = [done |-> FALSE, raised |-> FALSE, paragraphs |-> <<>>]

\* the input grows by one element: every document of at most MaxNodes nodes
\* is an argument of the function
AddNode ==
    /\ ~extracted.done
    /\ Len(html_content) < MaxNodes
    /\ \E x \in NodesAfter(html_content) :
         html_content' = Append(html_content, x)
    /\ UNCHANGED extracted
    /\ UNCHANGED fetchVars
    /\ UNCHANGED auxVars

\* the call extract_article_text_from_html(html_content)
Extract ==
    /\ ~extracted.done
    /\ \E r \in extract_article_text_from_html(html_content) :
         extracted' = [done |-> TRUE, raised |-> r.raised,
                       paragraphs |-> r.paragraphs]
    /\ UNCHANGED html_content
    /\ UNCHANGED fetchVars
    /\ UNCHANGED auxVars

NextExtract == AddNode \/ Extract

SpecExtract == InitExtract /\ [][NextExtract]_vars

-----------------------------------------------------------------------------
(* Lines 389-391 of fetch_items applied to the date strings of the bounds  *)

InitDate ==
    /\ FetchIdle
    /\ ExtractIdle
    /\ CaptchaIdle
    /\ AttemptIdle
    /\ RssIdle
    /\ \E e \in [link : {"u"}, published : DateStrings, updated : DateStrings] :
       \E now \in 0..MaxClock :
           dated = NotDated(e, now)

\* lines 390-391: pub_dt and pub_str of the entry
FormatPubDate ==
    /\ ~dated.done
    /\ LET pub_dt == parse_pubdate(dated.entry, dated.now) IN
       dated' = [dated EXCEPT !.done = TRUE,
                              !.pub_dt = pub_dt,
                              !.pubDate = strftime(pub_dt)]
    /\ UNCHANGED fetchVars
    /\ UNCHANGED extractVars
    /\ UNCHANGED <<captcha, attempted, rss>>

NextDate == FormatPubDate

SpecDate == InitDate /\ [][NextDate]_vars

-----------------------------------------------------------------------------
(* check_for_captcha applied to the pages of the bounds                    *)

InitCaptcha ==
    /\ FetchIdle
    /\ ExtractIdle
    /\ DateIdle
    /\ AttemptIdle
    /\ RssIdle
    /\ \E phrases \in SUBSET PhraseTexts : \E readFails \in BOOLEAN :
          /\ Cardinality(phrases) <= MaxPhrases
          /\ captcha = NotChecked(Page(DocBlank, phrases,
                                       [k \in 1..NumXPaths |-> NodeMissing]),
                                  readFails)

\* lines 116-134: the call check_for_captcha(driver)
CheckForCaptcha ==
    /\ ~captcha.done
    /\ captcha' = [captcha EXCEPT
                     !.done = TRUE,
                     !.result = check_for_captcha(captcha.page,
                                                  captcha.readFails)]
    /\ UNCHANGED fetchVars
    /\ UNCHANGED extractVars
    /\ UNCHANGED <<dated, attempted, rss>>

NextCaptcha == CheckForCaptcha

SpecCaptcha == InitCaptcha /\ [][NextCaptcha]_vars

-----------------------------------------------------------------------------
(* One pass of the retry loop applied to the inputs of the bounds          *)

InitAttempt ==
    /\ FetchIdle
    /\ ExtractIdle
    /\ DateIdle
    /\ CaptchaIdle
    /\ RssIdle
    /\ \E rc \in 0..(max_retries - 1) : \E in \in AttemptInputs :
          attempted = NotAttempted(rc, in)

\* lines 307-380: the loop body runs once, entered with retry_count = rc and
\* an empty article_text
RunAttempt ==
    /\ ~attempted.done
    /\ \E o \in attempt(attempted.rc, <<>>, attempted.in) :
          attempted' = [attempted EXCEPT !.done = TRUE, !.out = o]
    /\ UNCHANGED fetchVars
    /\ UNCHANGED extractVars
    /\ UNCHANGED <<dated, captcha, rss>>

NextAttempt == RunAttempt

SpecAttempt == InitAttempt /\ [][NextAttempt]_vars

-----------------------------------------------------------------------------
(* src/combine_rss.py: fetch_article_content and fetch_items               *)
(*                                                                         *)
(* A text is [src, len]: where it comes from and its length in characters. *)
(* The value None, and a field an entry does not have, is Absent.          *)

RssText(src, len) == [src |-> src, len |-> len]

Absent == RssText("None", 0)

\* the truth value of a text or None
Truthy(text) == text # Absent /\ text.len > 0

\* selectors of lines 66-73
NumSelectors == 6

\* line 81, line 94, line 107
MinSelectorLen == 200
MinParagraphLen == 50
MinBodyLen == 500

\* what find_elements gives for one selector: an exception, no element, or
\* the text of the first element
SelRaises == [raises |-> TRUE, elements |-> FALSE, len |-> 0]
SelNone == [raises |-> FALSE, elements |-> FALSE, len |-> 0]
SelText(len) == [raises |-> FALSE, elements |-> TRUE, len |-> len]

\* the pages fetch_article_content is run on: whether driver.get and the
\* wait for body succeed, what each selector finds, the lengths of the
\* stripped texts of the p elements, and the body element's text
RssPages ==
    [ get : {"ok", "WebDriverException"},
      wait : {"ok", "TimeoutException"},
      selectors : { [k \in 1..NumSelectors |-> SelNone],
                    [k \in 1..NumSelectors |-> SelText(150)],
                    [k \in 1..NumSelectors |->
                        IF k = 1 THEN SelRaises
                        ELSE IF k = 2 THEN SelText(0) ELSE SelText(300)] },
      paragraphs : { <<>>, <<30>>, <<80, 30, 60>> },
      body : { [found |-> FALSE, len |-> 0], [found |-> TRUE, len |-> 400],
               [found |-> TRUE, len |-> 600] } ]

\* lines 76-84: the first selector, from k on, whose first element has a
\* text longer than MinSelectorLen; an exception inside the loop body goes
\* on to the next selector
RECURSIVE FirstSelector(_, _)
FirstSelector(page, k) ==
    IF k > NumSelectors THEN Absent
    ELSE LET r == page.selectors[k] IN
         IF ~r.raises /\ r.elements /\ r.len > MinSelectorLen
         THEN RssText("selector", r.len)
         ELSE FirstSelector(page, k + 1)

\* lines 90-94: the stripped paragraph texts longer than MinParagraphLen
RECURSIVE ContentParagraphs(_)
ContentParagraphs(lens) ==
    IF lens = <<>> THEN <<>>
    ELSE IF Head(lens) > MinParagraphLen
         THEN <<Head(lens)>> \o ContentParagraphs(Tail(lens))
         ELSE ContentParagraphs(Tail(lens))

\* len("\n\n".join(...)) of texts of the given lengths
RECURSIVE JoinedLens(_)
JoinedLens(lens) ==
    IF lens = <<>> THEN 0
    ELSE IF Len(lens) = 1 THEN Head(lens)
    ELSE Head(lens) + 2 + JoinedLens(Tail(lens))

\* lines 54-121: the text returned, or Absent for None
fetch_article_content(page) ==
    IF page.get # "ok" THEN Absent
    ELSE IF page.wait # "ok" THEN Absent
    ELSE IF FirstSelector(page, 1) # Absent THEN FirstSelector(page, 1)
    ELSE LET content_paragraphs == ContentParagraphs(page.paragraphs) IN
         IF content_paragraphs # <<>>
         THEN RssText("paragraphs", JoinedLens(content_paragraphs))
         ELSE IF ~page.body.found THEN Absent
         ELSE IF page.body.len > MinBodyLen
              THEN RssText("body", page.body.len)
              ELSE Absent

\* every value fetch_article_content returns on the pages of the bounds
RssContents == { fetch_article_content(page) : page \in RssPages }

\* a feed entry of combine_rss.py: each field is Absent when the entry does
\* not have it; a description may be the empty string
RssEntries ==
    [ link : { Absent, RssText("link", 30) },
      title : { Absent, RssText("title", 10) },
      description : { Absent, RssText("feed", 0), RssText("feed", 40) },
      published : { Absent, RssText("published", 31) } ]

\* the literal "No content available"
NoContentMarker == RssText("marker", 20)

\* dict.get(key, default) on a field of an entry
Get(field, default) == IF field = Absent THEN default ELSE field

\* line 144
Description(full_content, e) ==
    IF Truthy(full_content) THEN full_content
    ELSE Get(e.description, NoContentMarker)

\* lines 146-151: the dictionary appended for an entry that has a title
RssItem(e, full_content) ==
    [ title |-> e.title,
      link |-> RssText("archive", 27 + e.link.len),
      description |-> Description(full_content, e),
      pubDate |-> Get(e.published, RssText("now", 31)) ]

\* the call fetch_items(feed_urls), at line 124
InitRss ==
    /\ FetchIdle
    /\ ExtractIdle
    /\ DateIdle
    /\ CaptchaIdle
    /\ AttemptIdle
    /\ \E n \in 0..MaxFeeds :
          rss = RssCalled(n)

\* line 125, outside the try: the session starts, or setup_driver raises and
\* fetch_items raises with it
RssSetupDriver ==
    /\ rss.pc = "setup"
    /\ \/ rss' = [rss EXCEPT !.pc = "feed", !.session = "open"]
       \/ rss' = [rss EXCEPT !.pc = "done", !.exc = "SetupError",
                             !.result = [status |-> "raised",
                                         items |-> <<>>]]
    /\ UNCHANGED <<fetchVars, extractVars, dated, captcha, attempted>>

\* lines 128-133: the next feed is parsed, or feedparser.parse raises
RssParseFeed ==
    /\ rss.pc = "feed"
    /\ rss.feedIdx < rss.nFeeds
    /\ \/ \E n \in 0..MaxEntries :
             /\ n <= MaxCollected - Len(rss.all_items)
             /\ rss' = [rss EXCEPT !.pc = "entry",
                                   !.feedIdx = rss.feedIdx + 1,
                                   !.nEntries = n, !.entryIdx = 0]
       \/ rss' = [rss EXCEPT !.pc = "finally",
                             !.feedIdx = rss.feedIdx + 1,
                             !.exc = "FeedError"]
    /\ UNCHANGED <<fetchVars, extractVars, dated, captcha, attempted>>

\* line 128: no more feeds
RssFeedsDone ==
    /\ rss.pc = "feed"
    /\ rss.feedIdx = rss.nFeeds
    /\ rss' = [rss EXCEPT !.pc = "finally"]
    /\ UNCHANGED <<fetchVars, extractVars, dated, captcha, attempted>>

\* line 135: no more entries in the feed
RssEntriesDone ==
    /\ rss.pc = "entry"
    /\ rss.entryIdx = rss.nEntries
    /\ rss' = [rss EXCEPT !.pc = "feed", !.nEntries = 0, !.entryIdx = 0]
    /\ UNCHANGED <<fetchVars, extractVars, dated, captcha, attempted>>

\* lines 135-155: the loop body for the next entry e, for which
\* fetch_article_content returns full_content.  An entry without a link is
\* passed over.  Reading entry.title of an entry without a title raises
\* AttributeError at line 147, before the append; no except clause of
\* fetch_items catches it.
RssNextEntry ==
    /\ rss.pc = "entry"
    /\ rss.entryIdx < rss.nEntries
    /\ \E e \in RssEntries : \E full_content \in RssContents :
          IF e.link = Absent
          THEN rss' = [rss EXCEPT !.entryIdx = rss.entryIdx + 1]
          ELSE IF e.title = Absent
          THEN rss' = [rss EXCEPT !.pc = "finally",
                                  !.entryIdx = 0, !.nEntries = 0,
                                  !.linked = rss.linked + 1,
                                  !.exc = "AttributeError"]
          ELSE rss' = [rss EXCEPT
                         !.entryIdx = rss.entryIdx + 1,
                         !.linked = rss.linked + 1,
                         !.all_items =
                             Append(rss.all_items, RssItem(e, full_content))]
    /\ UNCHANGED <<fetchVars, extractVars, dated, captcha, attempted>>

\* lines 157-163: driver.quit(), then the exception in flight goes on to the
\* caller, or all_items is returned
RssFinally ==
    /\ rss.pc = "finally"
    /\ rss' = [rss EXCEPT
                 !.pc = "done",
                 !.session = "closed",
                 !.result = IF rss.exc = "none"
                            THEN [status |-> "returned",
                                  items |-> rss.all_items]
                            ELSE [status |-> "raised", items |-> <<>>]]
    /\ UNCHANGED <<fetchVars, extractVars, dated, captcha, attempted>>

NextRss ==
    \/ RssSetupDriver
    \/ RssParseFeed
    \/ RssFeedsDone
    \/ RssEntriesDone
    \/ RssNextEntry
    \/ RssFinally

SpecRss == InitRss /\ [][NextRss]_vars

-----------------------------------------------------------------------------
(* Properties of fetch_items (lau.py), checked under Spec                  *)

\* the items collected for feed f
ItemsOfFeed(f) == { k \in 1..Len(items) : items[k].src.feed = f }

\* item a stands before item b in the order of lines 418-420: newer first,
\* and of two items of one instant the one collected first
Before(a, b) ==
    \/ Instant(a.pub_dt) > Instant(b.pub_dt)
    \/ Instant(a.pub_dt) = Instant(b.pub_dt) /\ a.src.seq < b.src.seq

\* C1: every item appended for an entry has a non-empty description: the
\* extracted article text when extraction succeeded, otherwise the entry's
\* feed summary or, when that is empty too, a "no content available" marker;
\* so an item never carries the empty text, whatever the renderer did.
C1_DescriptionNeverEmpty ==
    \A k \in 1..Len(items) : items[k].description # <<>>

\* C2: an exception (a subclass of Exception) raised while an entry is being
\* resolved stays inside the retry loop: from inside the loop control goes
\* only to another pass or to the append, the append adds exactly one item
\* and hands control back to the entry loop, and no exception of the retry
\* loop is ever in flight; only a KeyboardInterrupt leaves by another way.
C2_ResolutionErrorsContained ==
    [][ /\ exc' # "ResolutionError"
        /\ pc = "attempt" =>
             \/ pc' \in {"attempt", "append"}
             \/ exc' = "KeyboardInterrupt"
        /\ pc = "append" =>
             \/ /\ pc' = "entry"
                /\ Len(items') = Len(items) + 1
                /\ SubSeq(items', 1, Len(items)) = items
             \/ exc' = "KeyboardInterrupt" ]_vars

\* C2 witness: fetch_items has returned; the retry loop of some entry caught
\* an exception, that entry has its item, and entries after it, in its own
\* feed and in a later feed, have theirs.
C2_Witness ==
    /\ result.status = "returned"
    /\ caughtSeq > 0
    /\ caughtSeq <= Len(items)
    /\ \E k \in 1..Len(items) :
         /\ k > caughtSeq
         /\ items[k].src.feed = items[caughtSeq].src.feed
    /\ \E k \in 1..Len(items) :
         /\ k > caughtSeq
         /\ items[k].src.feed > items[caughtSeq].src.feed

\* C6: no feed has more than per_feed_limit items in the collection, and
\* the renderer is invoked only for an entry that comes before the
\* per_feed_limit-th item of its feed: while a pass of the retry loop can
\* run, fewer than per_feed_limit items of the feed have been appended.
C6_PerFeedLimit ==
    /\ \A f \in 1..nFeeds : Cardinality(ItemsOfFeed(f)) <= per_feed_limit
    /\ pc \in {"attempt", "append"} =>
         /\ count < per_feed_limit
         /\ Cardinality(ItemsOfFeed(feedIdx)) = count

\* C6 witness: the feed has reached its limit of two items while entries of
\* it are left, which are then never rendered.
C6_Witness ==
    /\ pc = "entry"
    /\ per_feed_limit = 2
    /\ count = per_feed_limit
    /\ Cardinality(ItemsOfFeed(feedIdx)) = 2
    /\ entryIdx < nEntries

\* C7: the returned sequence is ordered by pub_dt non-increasing, and two
\* items of equal pub_dt stand in the order in which they were collected.
C7_SortedStable ==
    result.status = "returned" =>
        \A i, j \in 1..Len(result.items) :
            i < j => Before(result.items[i], result.items[j])

\* C7 witness: a returned sequence that the sort had to reorder and that
\* holds two items of one instant.
C7_Witness ==
    /\ result.status = "returned"
    /\ result.items # items
    /\ \E i, j \in 1..Len(result.items) :
         /\ i < j
         /\ Instant(result.items[i].pub_dt) = Instant(result.items[j].pub_dt)

\* C8: the returned sequence has at most MAX_ITEMS items and is the first
\* MAX_ITEMS items of the sorted collection: it holds min(len, MAX_ITEMS)
\* items of the collection, none twice, and every item left out stands after
\* every item kept, whichever feed either came from.
C8_CapAfterSort ==
    result.status = "returned" =>
        LET kept == { result.items[i] : i \in 1..Len(result.items) }
            all == { items[k] : k \in 1..Len(items) }
        IN /\ Len(result.items) <= MAX_ITEMS
           /\ Len(result.items) =
                IF Len(items) < MAX_ITEMS THEN Len(items) ELSE MAX_ITEMS
           /\ Cardinality(kept) = Len(result.items)
           /\ kept \subseteq all
           /\ \A d \in all \ kept : \A x \in kept : Before(x, d)

\* C8 witness: an item was cut off, it was collected before an item that was
\* kept, and the two come from different feeds.
C8_Witness ==
    /\ result.status = "returned"
    /\ Len(items) > MAX_ITEMS
    /\ \E k \in 1..Len(items) : \E i \in 1..Len(result.items) :
         /\ \A j \in 1..Len(result.items) : result.items[j] # items[k]
         /\ items[k].src.seq < result.items[i].src.seq
         /\ items[k].src.feed # result.items[i].src.feed

\* C9: when the document of one feed cannot be fetched or parsed
\* (feedparser.parse raises, or gives no entries), that feed is skipped, the
\* remaining feeds are still processed and the items of the other feeds are
\* returned: without an interrupt and with the browser started, fetch_items
\* ends by returning, after the last feed.
C9_FeedFailureSkipsFeed ==
    (pc = "done" /\ exc \notin {"KeyboardInterrupt", "SetupError"}) =>
        /\ result.status = "returned"
        /\ feedIdx = nFeeds
        /\ Len(result.items) =
             IF Len(items) < MAX_ITEMS THEN Len(items) ELSE MAX_ITEMS

\* C10: when a KeyboardInterrupt arrives while an entry is being resolved,
\* the entry in flight still reaches its terminal state: an item for it is
\* in the returned collection.
C10_InflightEntryCompletes ==
    (pc = "done" /\ inflight.active) =>
        \E i \in 1..Len(result.items) :
            result.items[i].src.seq = inflight.seq

\* C11: when fetch_items has returned or raised, no browser session that was
\* started is still running: quit() has been called on every session, on
\* every exit path, a fault inside create_webdriver included.
C11_NoSessionLeaked ==
    pc = "done" => session # "open"

\* C13: an entry whose link is missing or empty is skipped before any
\* resolution step: the entry being rendered or appended always has a link,
\* no item is without one, and the step that passes over an entry leaves
\* count (which is compared with per_feed_limit) and the collection as they
\* were.
C13_NoLinkSkipped ==
    [][ /\ pc' \in {"attempt", "append"} => entry'.link \notin {"None", ""}
        /\ \A i \in 1..Len(items') :
              items'[i].original_link \notin {"None", ""}
        /\ (pc = "entry" /\ pc' = "entry" /\ entryIdx' = entryIdx + 1) =>
              (count' = count /\ items' = items) ]_vars

\* with per_feed_limit 1, the second entry of a feed has been appended: the
\* first one was passed over and did not count
C13_Witness ==
    /\ pc = "entry"
    /\ per_feed_limit = 1
    /\ entryIdx = 2
    /\ count = 1
    /\ Cardinality(ItemsOfFeed(feedIdx)) = 1

\* C15: an attempt that ends with a text shorter than MinArticleLen, empty
\* or not, while fewer than max_retries attempts have been made is followed
\* by another render of the entry: a short text is accepted for the item
\* only when the retry budget is exhausted.
C15_ShortTextRetried ==
    (pc = "append" /\ JoinedLen(article_text) < MinArticleLen) =>
        retry_count >= max_retries

\* C16: the retry loop ends after at most max_retries render attempts:
\* retry_count never exceeds max_retries, a pass is made only while
\* retry_count is below max_retries, and every pass either leaves the loop
\* or increases retry_count by exactly one.
C16_RetryLoopBounded ==
    [][ pc = "attempt" =>
          /\ retry_count <= max_retries
          /\ retry_count' <= max_retries
          /\ pc' = "attempt" =>
                (retry_count < max_retries /\ retry_count' = retry_count + 1)
          /\ (pc' = "append" /\ article_text' # article_text) =>
                (retry_count < max_retries /\ retry_count' = retry_count)
      ]_vars

\* max_retries passes have been made for an entry and none produced a text
C16_Witness ==
    /\ pc = "attempt"
    /\ retry_count = max_retries
    /\ article_text = <<>>

\* C22: after a KeyboardInterrupt at any point of the feed loop, fetch_items
\* does not raise: from the interrupt on the collection is left as it is,
\* the interrupt is not replaced by another exception, and the call ends by
\* returning the items appended before the interrupt, newest first (items of
\* one instant in collection order), cut to MAX_ITEMS.
C22_InterruptReturnsCompleted ==
    [][ /\ exc' = "KeyboardInterrupt" => items' = items
        /\ exc = "KeyboardInterrupt" => exc' = "KeyboardInterrupt"
        /\ (exc' = "KeyboardInterrupt" /\ pc' = "done") =>
              LET kept == { result'.items[i] : i \in 1..Len(result'.items) }
                  all == { items'[k] : k \in 1..Len(items') }
              IN /\ result'.status = "returned"
                 /\ \A i, j \in 1..Len(result'.items) :
                       i < j => Before(result'.items[i], result'.items[j])
                 /\ Len(result'.items) =
                       IF Len(items') < MAX_ITEMS THEN Len(items')
                       ELSE MAX_ITEMS
                 /\ Cardinality(kept) = Len(result'.items)
                 /\ kept \subseteq all
                 /\ \A d \in all \ kept : \A x \in kept : Before(x, d)
      ]_vars

\* an interrupt arrived while an entry was being resolved, after items had
\* been appended; the call returned, and the sort had to reorder the items
C22_Witness ==
    /\ pc = "done"
    /\ exc = "KeyboardInterrupt"
    /\ inflight.active
    /\ result.status = "returned"
    /\ Len(items) >= 2
    /\ Len(result.items) = MAX_ITEMS
    /\ result.items # Prefix(items, MAX_ITEMS)

-----------------------------------------------------------------------------
(* Properties of extract_article_text_from_html, checked under SpecExtract *)

\* div i of the document qualifies for the style-signaled layer and yields a
\* fragment there
StyledFragment(doc, i) ==
    /\ is_content_div(doc, i, StyleNorm(doc, i))
    /\ CharLen(DirectText(doc, i)) > MinStyledLen

\* some ancestor of node i carries display:none in its inline style
HiddenAncestor(doc, i) ==
    \E a \in 1..Len(doc) :
        /\ IsAncestor(doc, a, i)
        /\ HasDecl(normalize_style(doc[a].style), "display", "none")

Paragraphs(list) == { list[k] : k \in 1..Len(list) }

AllDivSet(doc) == { AllDivs(doc)[k] : k \in 1..Len(AllDivs(doc)) }

\* C3: for every input the function returns a string and never raises.
C3_ExtractNeverRaises ==
    extracted.done => ~extracted.raised

\* C4: if two style-qualifying divs yield fragments A and B, A a strict
\* substring of B, the output contains B and does not contain A as a
\* fragment, whichever of the two divs comes first.
C4_SupersetWins ==
    extracted.done =>
        \A i, j \in AllDivSet(html_content) :
            LET A == DirectText(html_content, i)
                B == DirectText(html_content, j)
            IN ( /\ StyledFragment(html_content, i)
                 /\ StyledFragment(html_content, j)
                 /\ A # B
                 /\ IsSubstring(A, B) )
               => /\ ~extracted.raised
                  /\ B \in Paragraphs(extracted.paragraphs)
                  /\ A \notin Paragraphs(extracted.paragraphs)

\* C5: a div that has an ancestor with display:none never contributes text:
\* every returned fragment is the text of some div that has no such
\* ancestor.
C5_HiddenAncestorExcluded ==
    (extracted.done /\ ~extracted.raised) =>
        \A p \in Paragraphs(extracted.paragraphs) :
            \E i \in AllDivSet(html_content) :
                /\ ~HiddenAncestor(html_content, i)
                /\ p \in { DirectText(html_content, i),
                           GetText(html_content, i) }

\* a list in which no text occurs at two positions
NoRepeat(list) ==
    \A i \in 1..Len(list) : \A j \in 1..Len(list) :
        list[i] = list[j] => i = j

\* div i passes the tests of the second loop (lines 235-243)
PermissiveFragment(doc, i) ==
    /\ ~HasDecl(StyleNorm(doc, i), "display", "none")
    /\ ~HasFigcaption(doc, i)
    /\ CharLen(GetText(doc, i)) > MinPermissiveLen
    /\ ~HasDenyKeyword(GetText(doc, i))

FallbackRanFrom(st) ==
    /\ ~st.raised
    /\ Len(st.paragraphs) < MinStyledFragments

\* C21: when the permissive fallback has run, no returned fragment is a
\* substring of another returned fragment, so that no passage appears twice
\* in the output, also when the scanned divs are nested in one another.
C21_FallbackNoSubstring ==
    (/\ extracted.done
     /\ ~extracted.raised
     /\ \E st \in StyledOutcomes(html_content) : FallbackRanFrom(st)) =>
        \A i \in 1..Len(extracted.paragraphs) :
            \A j \in 1..Len(extracted.paragraphs) :
                IsSubstring(extracted.paragraphs[i], extracted.paragraphs[j])
                    => i = j

\* C24: a fragment accepted by the first loop is never lost: when that loop
\* accepted one or two fragments, each of them is contained in a fragment of
\* the text returned after the permissive fallback, and the returned text is
\* not empty.
C24_StyledFragmentsKept ==
    (extracted.done /\ ~extracted.raised) =>
        \A st \in StyledOutcomes(html_content) :
            (FallbackRanFrom(st) /\ Len(st.paragraphs) >= 1) =>
                /\ extracted.paragraphs # <<>>
                /\ \A k \in 1..Len(st.paragraphs) :
                      \E m \in 1..Len(extracted.paragraphs) :
                          IsSubstring(st.paragraphs[k],
                                      extracted.paragraphs[m])

-----------------------------------------------------------------------------
(* Properties of the publication date, checked under SpecDate              *)

\* the date string parse_pubdate reads: published, or updated when the
\* entry has no published
FeedDateString(e) ==
    IF e.published.kind # "missing" THEN e.published ELSE e.updated

\* the instant a date string denotes: its clock reading less its offset
Denotes(str) == str.wall - str.off

\* C14: every item has a pubDate; when the feed's date string parses, the
\* emitted pubDate string, labelled +0000, denotes the same instant as the
\* feed's date string, whatever UTC offset that string carries; when the
\* date is missing or does not parse, pubDate is the ingestion time in UTC.
C14_PubDateSameInstant ==
    dated.done =>
        LET str == FeedDateString(dated.entry) IN
        /\ dated.pubDate.kind = "aware"
        /\ dated.pubDate.off = 0
        /\ IF str.kind \in {"naive", "aware"}
           THEN Denotes(dated.pubDate) = Denotes(str)
           ELSE dated.pubDate = DateString(dated.now, 0)

-----------------------------------------------------------------------------
(* Properties of check_for_captcha, checked under SpecCaptcha              *)

\* the page source holds, in some letter case, one of the listed phrases
HoldsIndicator(page) ==
    \E p \in page.phrases : \E indicator \in captcha_indicators :
        Lower(p) = Lower(indicator)

\* C18: check_for_captcha returns True whenever the page source contains,
\* in any letter case, any of the listed indicator phrases ("Try again
\* later" among them), False when the page contains none of them, and False
\* rather than an exception when reading the page source fails.
C18_CaptchaDetected ==
    captcha.done =>
        captcha.result =
            IF captcha.readFails THEN FALSE ELSE HoldsIndicator(captcha.page)

-----------------------------------------------------------------------------
(* Properties of one pass of the retry loop, checked under SpecAttempt     *)

\* the page loaded, and the challenge check reported a challenge at line 325
\* and again, after the wait, at line 328
ChallengeStays(in) ==
    /\ in.get = "ok"
    /\ check_for_captcha(in.page1, in.readFails)
    /\ check_for_captcha(in.page2, in.readFails)

\* C17: extraction is never run on a page for which the challenge check
\* still reports a challenge after the wait: the pass uses exactly one retry,
\* stays in the loop, and contributes no text (nor an exception of the
\* extractor), whatever the challenge page holds.
C17_ChallengePageNotExtracted ==
    (attempted.done /\ ChallengeStays(attempted.in)) =>
        attempted.out = Passed(attempted.rc + 1, <<>>, FALSE)

\* the challenge stayed on a page whose source holds a whole article
C17_Witness ==
    /\ attempted.done
    /\ ChallengeStays(attempted.in)
    /\ attempted.in.page2.dom = DocArticle
    /\ attempted.out.retry_count = attempted.rc + 1
    /\ attempted.out.article_text = <<>>

\* the page on which lines 334-349 run in a pass without a lasting
\* challenge: the page after the wait when a challenge was seen first
PageShown(in) ==
    IF check_for_captcha(in.page1, in.readFails) THEN in.page2 ELSE in.page1

\* C23: within one attempt, the text held after the fallback to the full
\* page source is never shorter than the text extracted from the fragment
\* the XPath patterns located: the fallback replaces the fragment's text
\* only by a text at least as long.
C23_FallbackNotShorter ==
    (/\ attempted.done
     /\ attempted.in.get = "ok"
     /\ ~ChallengeStays(attempted.in)
     /\ ~attempted.out.caught) =>
        LET outer_html ==
                fetch_node_outer_html_with_xpaths(PageShown(attempted.in))
        IN outer_html # <<>> =>
              \E r \in extract_article_text_from_html(outer_html) :
                  /\ ~r.raised
                  /\ JoinedLen(attempted.out.article_text)
                        >= JoinedLen(r.paragraphs)

-----------------------------------------------------------------------------
(* Properties of fetch_items (combine_rss.py), checked under SpecRss       *)

\* C19: no single entry aborts the batch of combine_rss.py: for every entry
\* with a link, whatever other fields it has or lacks, exactly one item is
\* appended, and no exception raised while an entry is processed ends the
\* loop over the entries and feeds.
C19_EntryNeverAbortsBatch ==
    /\ Len(rss.all_items) = rss.linked
    /\ rss.exc # "AttributeError"

\* C20: every item of combine_rss.py has a non-empty description: the
\* fetched content when fetch_article_content returned text, else the
\* entry's description when it is non-empty, else the marker.
C20_RssDescriptionNonEmpty ==
    \A i \in 1..Len(rss.all_items) :
        rss.all_items[i].description.len > 0

=============================================================================
